---------------------------- MODULE Spec2Model ----------------------------
(***************************************************************************)
(* Model of the ChatInterface React component                              *)
(* (src/rag-chatbot/src/components/ChatInterface.jsx).                     *)
(*                                                                         *)
(* The component owns four pieces of state (query, loading, error,         *)
(* chatHistory) and three handlers.  handleSubmit is asynchronous: it      *)
(* runs up to the `await axios.post(...)`, returns control to the event    *)
(* loop, and its continuation runs when the request settles.  The          *)
(* continuation belongs to the closure of the render in which the handler  *)
(* was invoked, so the `query` and `chatHistory` it reads are the values   *)
(* of that render, not the current ones.                                   *)
(***************************************************************************)
EXTENDS Integers, Sequences, FiniteSets, TLC

VARIABLES
    query,        \* useState('')   line 6  : the draft, a sequence of characters
    loading,      \* useState(false) line 7 : TRUE = Submitting, FALSE = Idle
    error,        \* useState('')   line 8  : '' = no error
    chatHistory,  \* useState([])   line 9  : sequence of Turns
    inflight,     \* pending axios.post promises, each with the closure of its handleSubmit call
    nIssued,      \* number of axios.post calls made so far
    now,          \* the clock read by Date.now()
    lastOp,       \* observation: the handler (or continuation) that ran last, with its inputs
    prevOp,       \* observation: the handler that ran before lastOp
    nValidSubmits \* observation: handleSubmit invocations made on a non-blank draft

vars == <<query, loading, error, chatHistory, inflight, nIssued, now,
          lastOp, prevOp, nValidSubmits>>

---------------------------------------------------------------------------
(* Bounds *)

MaxRequests == 2     \* handleSubmit calls that pass validation
MaxClock == 1        \* the clock advances at most this many times

(* Characters and the drafts the user types *)
WhiteSpace == {" "}
Drafts == { <<>>, <<" ">>, <<" ", "q", " ">> }

(* Values the endpoint / transport can supply *)
Absent == "<undefined>"
Answers == {"a1", "a2"}
Messages == {Absent, "", "backend message"}
ErrMessages == {Absent, "", "Network Error"}

(* String literals of the source *)
ValidationMessage == "Please enter a question"
SemanticFallback == "Error getting response"
TransportFallback == "Failed to connect to backend"
TypeErrorMessage == "Cannot read properties of null (reading 'status')"

---------------------------------------------------------------------------
(* Pure helpers *)

\* String.prototype.trim: strip leading and trailing white space.
RECURSIVE TrimStart(_)
TrimStart(s) ==
    IF s # <<>> /\ Head(s) \in WhiteSpace THEN TrimStart(Tail(s)) ELSE s

RECURSIVE TrimEnd(_)
TrimEnd(s) ==
    IF s # <<>> /\ s[Len(s)] \in WhiteSpace
    THEN TrimEnd(SubSeq(s, 1, Len(s) - 1))
    ELSE s

Trim(s) == TrimEnd(TrimStart(s))

\* JavaScript truthiness of an optional string, and the `a || b` operator.
Truthy(s) == s # Absent /\ s # ""
OrElse(a, b) == IF Truthy(a) THEN a ELSE b

\* variant: only the empty string is rejected
ValidationFails_EmptyOnly(q) == q = <<>>

\* `!query.trim()` (line 21)
ValidationFails(q) == Trim(q) = <<>>

\* variant: the payload is trimmed before it is sent
Payload_Trimmed(q) == Trim(q)

\* `{ message: query }` (lines 30-32): the text sent to the endpoint
Payload(q) == q

\* variant: the Turn takes the draft as it is when the response arrives
NewTurn_CurrentDraft(q, answer) == [id |-> now, query |-> query, answer |-> answer]

\* the Turn built at lines 38-42 from the closure's query
NewTurn(q, answer) == [id |-> now, query |-> q, answer |-> answer]

\* variant: the new Turn replaces the history instead of extending it
HistoryAfterSuccess_Replace(closureHistory, currentHistory, turn) == <<turn>>

\* `[...chatHistory, {...}]` (lines 36-43): chatHistory is the closure's value
HistoryAfterSuccess(closureHistory, currentHistory, turn) ==
    Append(closureHistory, turn)

\* variant: no fallback when the endpoint supplies no message
SemanticError_NoFallback(message) == message

\* `response.data.message || 'Error getting response'` (line 47)
SemanticError(message) == OrElse(message, SemanticFallback)

\* variant: the transport description is preferred to the endpoint's message
TransportError_ErrFirst(message, errMessage) ==
    OrElse(errMessage, OrElse(message, TransportFallback))

\* `err.response?.data?.message || err.message || 'Failed to connect to backend'`
\* (lines 51-55)
TransportError(message, errMessage) ==
    OrElse(message, OrElse(errMessage, TransportFallback))

\* variant: the button is disabled only when both conditions hold
SendDisabled_BothRequired == loading /\ Trim(query) = <<>>

\* variant: the button ignores loading
SendDisabled_IgnoresLoading == Trim(query) = <<>>

\* `disabled={loading || !query.trim()}` (line 131)
SendDisabled == loading \/ Trim(query) = <<>>

---------------------------------------------------------------------------
(* Outcomes of one axios.post *)

NoOutcome ==
    [kind |-> "none", answer |-> Absent, message |-> Absent, errMessage |-> Absent]

SuccessOutcomes ==
    { [kind |-> "success", answer |-> a, message |-> Absent, errMessage |-> Absent] :
        a \in Answers }

FailureOutcomes ==
    { [kind |-> "failure", answer |-> Absent, message |-> m, errMessage |-> Absent] :
        m \in Messages }

TransportOutcomes ==
    { [kind |-> "transport", answer |-> Absent, message |-> m, errMessage |-> e] :
        m \in Messages, e \in ErrMessages }

\* the promise resolves but response.data is null: line 34 throws a TypeError,
\* which the catch block receives with no `response` property
MalformedOutcomes ==
    { [kind |-> "malformed", answer |-> Absent, message |-> Absent,
       errMessage |-> TypeErrorMessage] }

Outcomes ==
    SuccessOutcomes \cup FailureOutcomes \cup TransportOutcomes \cup MalformedOutcomes

---------------------------------------------------------------------------
(* Observations *)

\* "empty or whitespace-only"
Blank(q) == \A i \in 1..Len(q) : q[i] \in WhiteSpace

\* op: the handler that ran; req: the request it issued or resumed (0 = none);
\* out: the outcome a resumed request settled with; idle: loading was false
\* when the handler began; draft: the draft when the handler began
Observe(op, req, out) ==
    /\ lastOp' = [op |-> op, req |-> req, out |-> out, idle |-> ~loading,
                  draft |-> query]
    /\ prevOp' = [op |-> lastOp.op, req |-> lastOp.req, idle |-> lastOp.idle,
                  kind |-> lastOp.out.kind]
    /\ nValidSubmits' = IF op = "submit" /\ ~Blank(query)
                        THEN nValidSubmits + 1
                        ELSE nValidSubmits

---------------------------------------------------------------------------
(* State machine *)

Init ==
    /\ query = <<>>
    /\ loading = FALSE
    /\ error = ""
    /\ chatHistory = <<>>
    /\ inflight = {}
    /\ nIssued = 0
    /\ now = 0
    /\ lastOp = [op |-> "init", req |-> 0, out |-> NoOutcome, idle |-> TRUE,
                 draft |-> <<>>]
    /\ prevOp = [op |-> "init", req |-> 0, idle |-> TRUE, kind |-> "none"]
    /\ nValidSubmits = 0

\* variant: the error is left alone when the draft changes
HandleQueryChange_KeepsError(text) ==
    /\ query' = text
    /\ UNCHANGED <<error, loading, chatHistory, inflight, nIssued, now>>
    /\ Observe("change", 0, NoOutcome)

\* handleQueryChange (lines 13-16)
HandleQueryChange(text) ==
    /\ query' = text
    /\ error' = ""
    /\ UNCHANGED <<loading, chatHistory, inflight, nIssued, now>>
    /\ Observe("change", 0, NoOutcome)

\* handleSubmit up to the await (lines 18-32)
HandleSubmit ==
    IF ValidationFails(query)
    THEN /\ error' = ValidationMessage
         /\ UNCHANGED <<query, loading, chatHistory, inflight, nIssued, now>>
         /\ Observe("submit", 0, NoOutcome)
    ELSE /\ nIssued < MaxRequests
         /\ loading' = TRUE
         /\ error' = ""
         /\ nIssued' = nIssued + 1
         /\ inflight' = inflight \cup
                { [id |-> nIssued + 1,
                   message |-> Payload(query),
                   query |-> query,
                   chatHistory |-> chatHistory] }
         /\ UNCHANGED <<query, chatHistory, now>>
         /\ Observe("submit", nIssued + 1, NoOutcome)

\* variant: setLoading(false) sits in the success branch instead of finally
LoadingAfter_OnlyOnSuccess(out) == IF out.kind = "success" THEN FALSE ELSE loading

\* what the continuation does to loading: the finally block (lines 56-58)
LoadingAfter(out) == FALSE

\* variant: a request that failed at transport level is sent again
HandleSubmitResume_Retries(r, out) ==
    /\ r \in inflight
    /\ IF out.kind = "transport" /\ nIssued < MaxRequests
       THEN /\ inflight' = (inflight \ {r}) \cup {[r EXCEPT !.id = nIssued + 1]}
            /\ nIssued' = nIssued + 1
            /\ UNCHANGED <<query, chatHistory, error, loading>>
       ELSE /\ inflight' = inflight \ {r}
            /\ UNCHANGED nIssued
            /\ loading' = FALSE
            /\ IF out.kind = "success"
               THEN /\ chatHistory' = Append(r.chatHistory, NewTurn(r.query, out.answer))
                    /\ query' = <<>>
                    /\ UNCHANGED error
               ELSE IF out.kind = "failure"
               THEN /\ error' = SemanticError(out.message)
                    /\ UNCHANGED <<query, chatHistory>>
               ELSE /\ error' = TransportError(out.message, out.errMessage)
                    /\ UNCHANGED <<query, chatHistory>>
    /\ UNCHANGED now
    /\ Observe("response", r.id, out)

\* handleSubmit after the await (lines 34-58), for request r settling with out
HandleSubmitResume(r, out) ==
    /\ r \in inflight
    /\ inflight' = inflight \ {r}
    /\ IF out.kind = "success"
       THEN /\ chatHistory' = HistoryAfterSuccess(r.chatHistory, chatHistory,
                                                  NewTurn(r.query, out.answer))
            /\ query' = <<>>
            /\ UNCHANGED error
       ELSE IF out.kind = "failure"
       THEN /\ error' = SemanticError(out.message)
            /\ UNCHANGED <<query, chatHistory>>
       ELSE /\ error' = TransportError(out.message, out.errMessage)
            /\ UNCHANGED <<query, chatHistory>>
    /\ loading' = LoadingAfter(out)
    /\ UNCHANGED <<nIssued, now>>
    /\ Observe("response", r.id, out)

\* variant: clearing an already empty history reports it
HandleClear_WarnsWhenEmpty ==
    /\ chatHistory' = <<>>
    /\ query' = <<>>
    /\ error' = IF chatHistory = <<>> THEN "Nothing to clear" ELSE ""
    /\ UNCHANGED <<loading, inflight, nIssued, now>>
    /\ Observe("clear", 0, NoOutcome)

\* variant: clearing also resets the loading flag
HandleClear_ResetsLoading ==
    /\ chatHistory' = <<>>
    /\ query' = <<>>
    /\ error' = ""
    /\ loading' = FALSE
    /\ UNCHANGED <<inflight, nIssued, now>>
    /\ Observe("clear", 0, NoOutcome)

\* handleClear (lines 61-65)
HandleClear ==
    /\ chatHistory' = <<>>
    /\ query' = <<>>
    /\ error' = ""
    /\ UNCHANGED <<loading, inflight, nIssued, now>>
    /\ Observe("clear", 0, NoOutcome)

\* time passes between two reads of Date.now()
Tick ==
    /\ now < MaxClock
    /\ now' = now + 1
    /\ UNCHANGED <<query, loading, error, chatHistory, inflight, nIssued,
                   lastOp, prevOp, nValidSubmits>>

Respond == \E r \in inflight : \E out \in Outcomes : HandleSubmitResume(r, out)

Next ==
    \/ \E text \in Drafts : HandleQueryChange(text)
    \/ HandleSubmit
    \/ Respond
    \/ HandleClear
    \/ Tick

Spec == Init /\ [][Next]_vars

\* the endpoint eventually answers or fails every request
LiveSpec == Spec /\ WF_vars(Respond)

---------------------------------------------------------------------------
(* Vocabulary of the properties *)

\* an optional string that is present and not the empty string
Supplied(m) == m # Absent /\ m # ""

Last(h) == h[Len(h)]

\* h is g with exactly one more Turn at the end
ExtendsByOne(h, g) == Len(h) = Len(g) + 1 /\ SubSeq(h, 1, Len(g)) = g

\* the step is handleSubmit run on a draft that passes validation
ValidSubmitStep == HandleSubmit /\ ~Blank(query)

\* the step is handleSubmit run on an empty or whitespace-only draft
BlankSubmitStep == HandleSubmit /\ Blank(query)

\* request r was issued by the handler that ran last, from status Idle
JustSubmittedFromIdle(r) ==
    lastOp.op = "submit" /\ lastOp.req = r.id /\ lastOp.idle

---------------------------------------------------------------------------
(* C1 *)

\* C1: from Idle with a non-blank draft, submit() directly followed by a
\* success response appends exactly one Turn: the previous Turns stay as a
\* prefix, the new Turn's answer is the endpoint's answer, the draft becomes
\* empty, no error is shown and the status is Idle again.
C1_SuccessAppendsOneTurn ==
    [][ \A r \in inflight : \A out \in SuccessOutcomes :
          (HandleSubmitResume(r, out) /\ JustSubmittedFromIdle(r))
          => /\ ExtendsByOne(chatHistory', chatHistory)
             /\ Last(chatHistory').answer = out.answer
             /\ query' = <<>>
             /\ error' = ""
             /\ loading' = FALSE ]_vars

\* a success response that directly followed its submit from Idle, on a
\* history that already held a Turn
C1_Witness ==
    /\ lastOp.op = "response" /\ lastOp.out.kind = "success"
    /\ prevOp.op = "submit" /\ prevOp.req = lastOp.req /\ prevOp.idle
    /\ Len(chatHistory) = 2
    /\ Last(chatHistory).answer = lastOp.out.answer
    /\ query = <<>> /\ error = "" /\ ~loading

---------------------------------------------------------------------------
(* C2 *)

\* C2 as stated: for every draft that passes validation, the text sent to
\* the endpoint and the query stored in the appended Turn are both the
\* trimmed draft.
C2_SentAndStoredTrimmed ==
    [][ /\ ValidSubmitStep =>
              \A r \in inflight' \ inflight :
                  r.query = query /\ r.message = Trim(query)
        /\ \A r \in inflight : \A out \in SuccessOutcomes :
              HandleSubmitResume(r, out) =>
                  Last(chatHistory').query = Trim(r.query) ]_vars

\* C2 amended: for every draft that passes validation, the text sent to the
\* endpoint and the query stored in the appended Turn are both the draft
\* exactly as it was when submit() was invoked, white space included.
C2_SentAndStoredRaw ==
    [][ /\ ValidSubmitStep =>
              \A r \in inflight' \ inflight :
                  r.query = query /\ r.message = query
        /\ \A r \in inflight : \A out \in SuccessOutcomes :
              HandleSubmitResume(r, out) =>
                  Last(chatHistory').query = r.query ]_vars

\* a Turn was appended for a draft with leading and trailing white space
C2_Witness ==
    /\ lastOp.op = "response" /\ lastOp.out.kind = "success"
    /\ chatHistory # <<>>
    /\ Last(chatHistory).query = <<" ", "q", " ">>
    /\ Trim(Last(chatHistory).query) = <<"q">>

---------------------------------------------------------------------------
(* C3 *)

\* C3: in any state, submit() on an empty or whitespace-only draft issues no
\* request, sets the error to "Please enter a question" and leaves status,
\* history and draft unchanged.
C3_BlankSubmitRejected ==
    [][ BlankSubmitStep
        => /\ error' = "Please enter a question"
           /\ inflight' = inflight
           /\ nIssued' = nIssued
           /\ loading' = loading
           /\ chatHistory' = chatHistory
           /\ query' = query ]_vars

\* a whitespace-only draft was submitted while a request was in flight
C3_Witness ==
    /\ lastOp.op = "submit" /\ lastOp.req = 0
    /\ query = <<" ">>
    /\ error = "Please enter a question"
    /\ loading /\ inflight # {}

---------------------------------------------------------------------------
(* C4 *)

\* C4: a response whose payload carries a failure discriminator appends no
\* Turn, sets the error to the endpoint's message, or to "Error getting
\* response" when none is supplied, leaves the draft unchanged and returns
\* the status to Idle.
C4_SemanticFailure ==
    [][ \A r \in inflight : \A out \in FailureOutcomes :
          HandleSubmitResume(r, out)
          => /\ chatHistory' = chatHistory
             /\ query' = query
             /\ loading' = FALSE
             /\ error' = IF Supplied(out.message)
                         THEN out.message
                         ELSE "Error getting response" ]_vars

\* a failure response without a message arrived while the draft was non-blank
\* and the history non-empty
C4_Witness ==
    /\ lastOp.op = "response" /\ lastOp.out.kind = "failure"
    /\ lastOp.out.message = Absent
    /\ error = "Error getting response"
    /\ ~Blank(query) /\ chatHistory # <<>> /\ ~loading

---------------------------------------------------------------------------
(* C5 *)

\* C5: a transport failure appends no Turn, leaves the draft unchanged,
\* returns the status to Idle and sets the error to (a) the message of the
\* endpoint's error payload if present, else (b) the transport error's own
\* description if present, else (c) "Failed to connect to backend".
C5_TransportFailure ==
    [][ \A r \in inflight : \A out \in TransportOutcomes :
          HandleSubmitResume(r, out)
          => /\ chatHistory' = chatHistory
             /\ query' = query
             /\ loading' = FALSE
             /\ error' = IF Supplied(out.message) THEN out.message
                         ELSE IF Supplied(out.errMessage) THEN out.errMessage
                         ELSE "Failed to connect to backend" ]_vars

\* a transport failure carrying both an endpoint message and a transport
\* description: the endpoint message won
C5_Witness ==
    /\ lastOp.op = "response" /\ lastOp.out.kind = "transport"
    /\ Supplied(lastOp.out.message) /\ Supplied(lastOp.out.errMessage)
    /\ error = lastOp.out.message
    /\ ~Blank(query) /\ ~loading

---------------------------------------------------------------------------
(* C6 *)

\* C6: clear() empties the history and the draft, removes the error, leaves
\* the status unchanged and leaves the outstanding requests untouched.
C6_ClearResets ==
    [][ HandleClear
        => /\ chatHistory' = <<>>
           /\ query' = <<>>
           /\ error' = ""
           /\ loading' = loading
           /\ inflight' = inflight ]_vars

\* clear() ran right after a submit from a non-empty history, with the
\* request still outstanding
C6_Witness ==
    /\ lastOp.op = "clear"
    /\ prevOp.op = "submit" /\ prevOp.req # 0
    /\ \E r \in inflight : r.id = prevOp.req /\ r.chatHistory # <<>>
    /\ chatHistory = <<>> /\ query = <<>> /\ error = ""
    /\ loading

---------------------------------------------------------------------------
(* C7 *)

\* C7: submit() on a non-empty history, then clear(), then a success
\* response: the Turn is appended to the cleared history, so the history
\* afterwards holds exactly the one new Turn.
C7_AppendToClearedHistory ==
    [][ \A r \in inflight : \A out \in SuccessOutcomes :
          ( /\ HandleSubmitResume(r, out)
            /\ r.chatHistory # <<>>
            /\ prevOp.op = "submit" /\ prevOp.req = r.id
            /\ lastOp.op = "clear" )
          => /\ ExtendsByOne(chatHistory', chatHistory)
             /\ Len(chatHistory') = 1
             /\ Last(chatHistory').answer = out.answer ]_vars

---------------------------------------------------------------------------
(* C8 *)

\* C8: at most one submit-initiated request is outstanding at any time; a
\* submit() invoked while Submitting issues no second request.
C8_AtMostOneOutstanding == Cardinality(inflight) <= 1

---------------------------------------------------------------------------
(* C9 *)

\* C9: a submit() that passes validation issues a request and sets the
\* status to Submitting (also right after a failure); every outcome sets it
\* back to Idle; and, the endpoint eventually answering, Submitting always
\* leads to Idle.
C9_AlwaysBackToIdle ==
    /\ [][ ValidSubmitStep
           => /\ loading'
              /\ nIssued' = nIssued + 1
              /\ Cardinality(inflight') = Cardinality(inflight) + 1 ]_vars
    /\ [][ \A r \in inflight : \A out \in Outcomes :
              HandleSubmitResume(r, out) => ~loading' ]_vars
    /\ (loading ~> ~loading)

\* a request was issued right after a failed one returned the status to Idle
C9_Witness ==
    /\ lastOp.op = "submit" /\ lastOp.req # 0 /\ lastOp.idle
    /\ prevOp.op = "response" /\ prevOp.kind \in {"failure", "transport", "malformed"}
    /\ error = ""
    /\ loading
    /\ \E r \in inflight : r.id = lastOp.req

---------------------------------------------------------------------------
(* C10 *)

\* C10: the send button is enabled exactly when the status is Idle and the
\* draft is not blank.
C10_SendEnabledIffCanSubmit ==
    /\ ~SendDisabled <=> (~loading /\ ~Blank(query))
    /\ loading => SendDisabled

\* Idle with a padded, non-blank draft: the button is enabled
C10_Witness ==
    /\ ~loading
    /\ query = <<" ", "q", " ">>
    /\ ~SendDisabled

---------------------------------------------------------------------------
(* C11 *)

\* C11: updateDraft(text), in any state and for any string, sets the draft
\* to text and removes the error (also when there was none), and leaves
\* status, history and the outstanding requests unchanged.
C11_UpdateDraft ==
    [][ \A text \in Drafts :
          HandleQueryChange(text)
          => /\ query' = text
             /\ error' = ""
             /\ loading' = loading
             /\ chatHistory' = chatHistory
             /\ inflight' = inflight
             /\ nIssued' = nIssued ]_vars

\* the draft was edited right after a rejected submit (an error was shown),
\* while a request was outstanding and the history was non-empty
C11_Witness ==
    /\ lastOp.op = "change"
    /\ prevOp.op = "submit" /\ prevOp.req = 0
    /\ query = <<" ", "q", " ">>
    /\ error = ""
    /\ loading /\ inflight # {} /\ chatHistory # <<>>

---------------------------------------------------------------------------
(* C12 *)

\* g is an initial segment of h
IsPrefix(g, h) == Len(g) <= Len(h) /\ SubSeq(h, 1, Len(g)) = g

\* C12: Turns are immutable and the history is append-only: every step
\* other than clear() keeps the history it started from as a prefix of the
\* history it ends with, also when two submit() calls overlap in flight.
C12_HistoryAppendOnly ==
    [][ ~HandleClear => IsPrefix(chatHistory, chatHistory') ]_vars

---------------------------------------------------------------------------
(* C13 *)

\* C13: all Turns of the history have pairwise distinct ids, the clock never
\* going backwards.
C13_TurnIdsDistinct ==
    \A i, j \in DOMAIN chatHistory :
        i # j => chatHistory[i].id # chatHistory[j].id

---------------------------------------------------------------------------
(* C14 *)

\* C14: exactly one request is issued per submit() that passes validation
\* and none is re-issued after a failure: the number of requests ever issued
\* equals the number of submit() invocations made on a non-blank draft, and
\* only such a submit() adds an outstanding request.
C14_OneRequestPerValidSubmit ==
    /\ nIssued = nValidSubmits
    /\ Cardinality(inflight) <= nIssued
    /\ \A r \in inflight : r.id \in 1..nIssued

\* a transport failure has been handled: one submit, one request ever
\* issued, nothing outstanding
C14_Witness ==
    /\ lastOp.op = "response" /\ lastOp.out.kind = "transport"
    /\ nValidSubmits = 1 /\ nIssued = 1
    /\ inflight = {}

---------------------------------------------------------------------------
(* C15 *)

\* C15: clear() is idempotent: a clear() that directly follows a clear()
\* changes nothing of history, draft, error, status or outstanding requests.
C15_ClearIdempotent ==
    [][ (lastOp.op = "clear" /\ HandleClear)
        => /\ chatHistory' = chatHistory
           /\ query' = query
           /\ error' = error
           /\ loading' = loading
           /\ inflight' = inflight
           /\ nIssued' = nIssued ]_vars

\* clear() ran twice in a row after a submit from a non-empty history, the
\* request still outstanding
C15_Witness ==
    /\ lastOp.op = "clear" /\ prevOp.op = "clear"
    /\ chatHistory = <<>> /\ query = <<>> /\ error = ""
    /\ loading
    /\ \E r \in inflight : r.chatHistory # <<>>

---------------------------------------------------------------------------
(* C16 *)

\* C16: the query of an appended Turn is the draft as it was when submit()
\* was invoked, not the draft at response time: when the draft was changed
\* while the request was in flight and the response is a success, the new
\* Turn carries the draft of submit time and the draft is cleared.
C16_TurnQueryFromSubmitTime ==
    [][ /\ ValidSubmitStep => \A r \in inflight' \ inflight : r.query = query
        /\ \A r \in inflight : \A out \in SuccessOutcomes :
              (HandleSubmitResume(r, out) /\ query # r.query)
              => /\ Last(chatHistory').query = r.query
                 /\ Last(chatHistory').query # query
                 /\ query' = <<>> ]_vars

\* the draft was edited to " " while the request for " q " was in flight;
\* the success response stored " q " and emptied the draft
C16_Witness ==
    /\ lastOp.op = "response" /\ lastOp.out.kind = "success"
    /\ prevOp.op = "change"
    /\ lastOp.draft = <<" ">>
    /\ Last(chatHistory).query = <<" ", "q", " ">>
    /\ query = <<>>

---------------------------------------------------------------------------
(* The component as the rendered controls let a user drive it *)

\* variant: the text input stays enabled while loading
InputDisabled_Never == FALSE

\* `disabled={loading}` on the text input (line 125)
InputDisabled == loading

\* `{chatHistory.length > 0 && (...)}` (line 137): the clear button is rendered
ClearShown == Len(chatHistory) > 0

\* `disabled={loading}` on the clear button (line 142)
ClearDisabled == loading

\* onChange of the enabled input (lines 119-127)
UIType(text) == ~InputDisabled /\ HandleQueryChange(text)

\* onSubmit of the form through the enabled send button (lines 117, 128-134)
UISend == ~SendDisabled /\ HandleSubmit

\* onClick of the rendered, enabled clear button (lines 137-146)
UIClear == ClearShown /\ ~ClearDisabled /\ HandleClear

NextUI ==
    \/ \E text \in Drafts : UIType(text)
    \/ UISend
    \/ UIClear
    \/ Respond
    \/ Tick

SpecUI == Init /\ [][NextUI]_vars

---------------------------------------------------------------------------
(* C17 *)

\* C17: driven through the rendered controls, at most one request is
\* outstanding, and loading is true exactly when one request is outstanding.
C17_UIOneRequestIffLoading ==
    /\ Cardinality(inflight) <= 1
    /\ loading <=> Cardinality(inflight) = 1

\* a second request is outstanding alone, after a first one was answered
C17_Witness ==
    /\ loading
    /\ Cardinality(inflight) = 1
    /\ nIssued = 2
    /\ chatHistory # <<>>

---------------------------------------------------------------------------
(* C18 *)

\* C18: driven through the rendered controls, while Submitting nothing but
\* the response changes draft, history or error, and the error is empty
\* throughout; so the response is applied to the history and draft that
\* existed when submit() was invoked; and the history never gets shorter
\* except through clear().
C18_UIFrozenWhileSubmitting ==
    /\ [][ (loading /\ ~(\E r \in inflight : \E out \in Outcomes :
                            HandleSubmitResume(r, out)))
           => /\ query' = query
              /\ chatHistory' = chatHistory
              /\ error' = error ]_vars
    /\ [](loading => error = "")
    /\ [](\A r \in inflight : r.chatHistory = chatHistory /\ r.query = query)
    /\ [][ Len(chatHistory') < Len(chatHistory) => HandleClear ]_vars

\* a success response was applied to the one-Turn history its submit saw
C18_Witness ==
    /\ lastOp.op = "response" /\ lastOp.out.kind = "success"
    /\ prevOp.op = "submit" /\ prevOp.req = lastOp.req
    /\ lastOp.draft = <<" ", "q", " ">>
    /\ Len(chatHistory) = 2
    /\ ~loading /\ error = ""

---------------------------------------------------------------------------
(* C19 *)

\* an error is shown
ErrorShown(e) == e # "" /\ e # Absent

\* C19: the outcomes of one submit() are mutually exclusive and observable:
\* a success appends one Turn and sets no error, whereas every failed
\* submit() (validation, semantic, transport) appends no Turn and leaves a
\* non-empty error, also when the endpoint's message or the transport
\* description is absent or empty.
C19_OutcomesObservable ==
    [][ /\ \A r \in inflight : \A out \in SuccessOutcomes :
              HandleSubmitResume(r, out)
              => /\ ExtendsByOne(chatHistory', chatHistory)
                 /\ error' = error
        /\ \A r \in inflight : \A out \in Outcomes \ SuccessOutcomes :
              HandleSubmitResume(r, out)
              => /\ chatHistory' = chatHistory
                 /\ ErrorShown(error')
        /\ BlankSubmitStep
              => /\ chatHistory' = chatHistory
                 /\ ErrorShown(error') ]_vars

\* C19, the failures alone: every failed submit() (validation, semantic,
\* transport) appends no Turn and leaves a non-empty error.
C19_FailuresLeaveError ==
    [][ /\ \A r \in inflight : \A out \in Outcomes \ SuccessOutcomes :
              HandleSubmitResume(r, out)
              => /\ chatHistory' = chatHistory
                 /\ ErrorShown(error')
        /\ BlankSubmitStep
              => /\ chatHistory' = chatHistory
                 /\ ErrorShown(error') ]_vars

=============================================================================
